---- MODULE Spec2Model ----
(***************************************************************************)
(* Model of Project 1/STAN48_Ex1.py: the BankAccount class (deposit,       *)
(* withdraw, transfer, apply_interest, record) and the Bank container      *)
(* (create_account, get_account, total_assets).                            *)
(*                                                                         *)
(* Representation.                                                         *)
(*  - heap is the sequence of BankAccount objects constructed so far; an   *)
(*    object is referred to by its index.  accounts is Bank.accounts, the  *)
(*    list of references the bank stores.  An object built directly with   *)
(*    BankAccount(...) is on the heap but not in accounts.                 *)
(*  - Money is fixed point: the integer n stands for n / Scale.  The       *)
(*    amounts and opening balances the model draws are whole numbers; the  *)
(*    only fractions come from apply_interest, which is modelled exactly   *)
(*    as long as its result is a multiple of 1/Scale.                      *)
(*  - Strings that the code only stores or compares are TLA+ strings; the  *)
(*    account type, which the constructor lower-cases, is a sequence of    *)
(*    characters.                                                          *)
(*  - ret is what the last call returned: None, a message string, an       *)
(*    object, a number, or the exception it raised.                        *)
(*  - now is the clock that record reads.                                  *)
(*                                                                         *)
(* Scope.  history, list_accounts and __str__ only print or format and     *)
(* change nothing; history and list_accounts are left out.  The account    *)
(* methods that Bank inherits are modelled on account objects only; the    *)
(* Bank object appears as the target of a transfer.  Amounts are exact     *)
(* numbers: float rounding, inf and nan are outside the model.             *)
(*                                                                         *)
(* Specifications.  Spec is the bank: accounts opened with create_account, *)
(* every account operation, get_account and total_assets.  SpecAccount is  *)
(* the BankAccount class alone, the objects constructed directly.          *)
(* SpecInterest opens accounts of every type under a running clock.        *)
(***************************************************************************)
EXTENDS Integers, Sequences, FiniteSets, TLC

VARIABLES heap, accounts, now, ret

vars == <<heap, accounts, now, ret>>

(* ----------------------------- bounds ---------------------------------- *)

\* objects constructed
MaxAccounts == 2
\* transaction records appended, over all accounts
MaxTx == 3
\* the clock runs from 0 to MaxTime seconds
MaxTime == 1

(* --------------------------- program constants ------------------------- *)

\* annual_interest_rate = 0.02 = RateNum / RateDen
RateNum == 1
RateDen == 50
\* the multipliers of apply_interest
MortgageFactor == 2
PrivateFactor == 5

\* money is counted in Scale-ths of a unit: interest on a whole balance is exact
Scale == RateDen

(* ------------------------------ inputs --------------------------------- *)

Owners == {"Alice", "Bob"}
OwnerNames == Owners \cup {"Carol"}

CHECKING == <<"c","h","e","c","k","i","n","g">>
SAVINGS == <<"s","a","v","i","n","g","s">>
MORTGAGE_LOAN == <<"m","o","r","t","g","a","g","e","_","l","o","a","n">>
MORGAGE_LOAN == <<"m","o","r","g","a","g","e","_","l","o","a","n">>
PRIVATE_LOAN == <<"p","r","i","v","a","t","e","_","l","o","a","n">>

\* what callers pass as account_type
TypeInputs ==
    { CHECKING,
      <<"S","a","v","i","n","g","s">>,
      MORTGAGE_LOAN,
      MORGAGE_LOAN,
      <<"P","R","I","V","A","T","E","_","L","O","A","N">> }

\* amounts and opening balances, in whole units
Amounts == { -1 * Scale, 0, 1 * Scale }
Balances == { -1 * Scale, 0, 2 * Scale }

\* the constructor's arguments: owner, account_type, balance
Customers ==
    << <<"Alice", <<"S","a","v","i","n","g","s">>, 2 * Scale>>,
       <<"Bob", CHECKING, 0>> >>

AccountArgs == {Customers[k] : k \in 1..Len(Customers)}

\* references: heap indices are BankAccount objects, BankRef the Bank object
\* (a BankAccount by inheritance, constructed without balance), NotAnAccount
\* any value that is no BankAccount
BankRef == 0
NotAnAccount == -1

Refs == 1..Len(heap)
Targets == Refs \cup {BankRef, NotAnAccount}

(* ------------------------------ values --------------------------------- *)

None == [kind |-> "None", text |-> "", val |-> 0]
Str(text, val) == [kind |-> "str", text |-> text, val |-> val]
Ref(i) == [kind |-> "ref", text |-> "", val |-> i]
Num(n) == [kind |-> "num", text |-> "", val |-> n]
AttributeError == [kind |-> "raise", text |-> "AttributeError", val |-> 0]

(* str.lower() *)
UpperCase == <<"A","B","C","D","E","F","G","H","I","J","K","L","M",
               "N","O","P","Q","R","S","T","U","V","W","X","Y","Z">>
LowerCase == <<"a","b","c","d","e","f","g","h","i","j","k","l","m",
               "n","o","p","q","r","s","t","u","v","w","x","y","z">>

lower_char(c) ==
    IF \E k \in 1..Len(UpperCase) : UpperCase[k] = c
    THEN LowerCase[CHOOSE k \in 1..Len(UpperCase) : UpperCase[k] = c]
    ELSE c

lower(s) == [k \in 1..Len(s) |-> lower_char(s[k])]

(* datetime.datetime.now().strftime("%Y/%m/%d, %H:%M:%S") of the clock     *)
(* reading t, in seconds: the fields of the text (the date is left out)    *)
strftime(t) == [H |-> (t \div 3600) % 24, M |-> (t \div 60) % 60, S |-> t % 60]

(* ---------------------------- BankAccount ------------------------------ *)

\* __init__
BankAccount(owner, account_type, balance) ==
    [owner |-> owner,
     account_type |-> lower(account_type),
     balance |-> balance,
     annual_interest_rate |-> [num |-> RateNum, den |-> RateDen],
     transactions |-> <<>>]

\* __str__
str(acc) == [owner |-> acc.owner, account_type |-> acc.account_type,
             balance |-> acc.balance]

NoStr == [owner |-> "", account_type |-> <<>>, balance |-> 0]

\* the action labels of the records
Label(text, owner, shown) == [text |-> text, owner |-> owner, str |-> shown]

\* record that snapshots the amount in place of the balance
record_amount(h, self, action_type, amount, t) ==
    [h EXCEPT ![self].transactions =
        Append(@, [Action |-> action_type,
                   Amount |-> amount,
                   Balance |-> amount,
                   Time |-> strftime(t)])]

\* record(action_type, amount), the clock reading t
record(h, self, action_type, amount, t) ==
    [h EXCEPT ![self].transactions =
        Append(@, [Action |-> action_type,
                   Amount |-> amount,
                   Balance |-> h[self].balance,
                   Time |-> strftime(t)])]

\* deposit that lets a zero amount through
deposit_zero(h, self, amount, t) ==
    IF amount < 0
    THEN [heap |-> h, ret |-> Str("Deposit amount has to be positve number!", 0)]
    ELSE LET h1 == [h EXCEPT ![self].balance = @ + amount]
         IN  [heap |-> record(h1, self, Label("deposit", "", NoStr), amount, t),
              ret |-> None]

\* deposit(amount): the heap after the call and the value returned
deposit(h, self, amount, t) ==
    IF amount <= 0
    THEN [heap |-> h, ret |-> Str("Deposit amount has to be positve number!", 0)]
    ELSE LET h1 == [h EXCEPT ![self].balance = @ + amount]
         IN  [heap |-> record(h1, self, Label("deposit", "", NoStr), amount, t),
              ret |-> None]

\* withdraw without the check of the balance
withdraw_unchecked(h, self, amount, t) ==
    IF amount <= 0
    THEN [heap |-> h, ret |-> Str("Withdraw amount has to be positve number!", 0)]
    ELSE LET h1 == [h EXCEPT ![self].balance = @ - amount]
         IN  [heap |-> record(h1, self, Label("withdraw", "", NoStr), amount, t),
              ret |-> None]

\* withdraw that refuses to empty the account
withdraw_strict(h, self, amount, t) ==
    IF amount <= 0
    THEN [heap |-> h, ret |-> Str("Withdraw amount has to be positve number!", 0)]
    ELSE IF amount >= h[self].balance
    THEN [heap |-> h,
          ret |-> Str("Not enough money remaining! Current balance: {}.",
                      h[self].balance)]
    ELSE LET h1 == [h EXCEPT ![self].balance = @ - amount]
         IN  [heap |-> record(h1, self, Label("withdraw", "", NoStr), amount, t),
              ret |-> None]

\* withdraw(amount)
withdraw(h, self, amount, t) ==
    IF amount <= 0
    THEN [heap |-> h, ret |-> Str("Withdraw amount has to be positve number!", 0)]
    ELSE IF amount > h[self].balance
    THEN [heap |-> h,
          ret |-> Str("Not enough money remaining! Current balance: {}.",
                      h[self].balance)]
    ELSE LET h1 == [h EXCEPT ![self].balance = @ - amount]
         IN  [heap |-> record(h1, self, Label("withdraw", "", NoStr), amount, t),
              ret |-> None]

\* isinstance(target_account, BankAccount): Bank is a subclass of BankAccount
isinstance(h, target) == target = BankRef \/ target \in 1..Len(h)

\* transfer that never debits the sender
transfer_nodebit(h, self, target, amount, t) ==
    IF ~isinstance(h, target)
    THEN [heap |-> h, ret |-> Str("Target account must be a bank account", 0)]
    ELSE IF amount <= 0
    THEN [heap |-> h, ret |-> Str("Transfer amount has to be positve number!", 0)]
    ELSE IF amount > h[self].balance
    THEN [heap |-> h,
          ret |-> Str("Not enough money remaining! Current balance: {}.",
                      h[self].balance)]
    ELSE IF target = BankRef
    THEN [heap |-> h, ret |-> AttributeError]
    ELSE LET h1 == deposit(h, target, amount, t).heap
             h2 == record(h1, target,
                          Label("transfer from ", h1[self].owner, NoStr),
                          amount, t)
         IN  [heap |-> record(h2, self,
                              Label("transfer to ", "", str(h2[target])),
                              amount, t),
              ret |-> None]

\* transfer without the amount <= 0 check: the target's deposit can refuse
transfer_unchecked(h, self, target, amount, t) ==
    IF ~isinstance(h, target)
    THEN [heap |-> h, ret |-> Str("Target account must be a bank account", 0)]
    ELSE IF amount > h[self].balance
    THEN [heap |-> h,
          ret |-> Str("Not enough money remaining! Current balance: {}.",
                      h[self].balance)]
    ELSE IF target = BankRef
    THEN [heap |-> h, ret |-> AttributeError]
    ELSE LET h1 == deposit(h, target, amount, t).heap
             h2 == record(h1, target,
                          Label("transfer from ", h1[self].owner, NoStr),
                          amount, t)
             h3 == [h2 EXCEPT ![self].balance = @ - amount]
         IN  [heap |-> record(h3, self,
                              Label("transfer to ", "", str(h3[target])),
                              amount, t),
              ret |-> None]

\* transfer(target_account, amount)
transfer(h, self, target, amount, t) ==
    IF ~isinstance(h, target)
    THEN [heap |-> h, ret |-> Str("Target account must be a bank account", 0)]
    ELSE IF amount <= 0
    THEN [heap |-> h, ret |-> Str("Transfer amount has to be positve number!", 0)]
    ELSE IF amount > h[self].balance
    THEN [heap |-> h,
          ret |-> Str("Not enough money remaining! Current balance: {}.",
                      h[self].balance)]
    ELSE IF target = BankRef
    \* Bank.__init__ sets no balance: deposit's self.balance += amount raises
    THEN [heap |-> h, ret |-> AttributeError]
    ELSE LET h1 == deposit(h, target, amount, t).heap
             h2 == record(h1, target,
                          Label("transfer from ", h1[self].owner, NoStr),
                          amount, t)
             h3 == [h2 EXCEPT ![self].balance = @ - amount]
         IN  [heap |-> record(h3, self,
                              Label("transfer to ", "", str(h3[target])),
                              amount, t),
              ret |-> None]

\* balance * (annual_interest_rate * factor)
interest(acc, factor) ==
    (acc.balance * acc.annual_interest_rate.num * factor)
        \div acc.annual_interest_rate.den

\* the interest is a multiple of 1/Scale
Exact(acc, factor) ==
    (acc.balance * acc.annual_interest_rate.num * factor)
        % acc.annual_interest_rate.den = 0

\* the multiplier apply_interest uses for an account type, 0 when it has none
factor(account_type) ==
    IF account_type = SAVINGS THEN 1
    ELSE IF account_type = MORGAGE_LOAN THEN MortgageFactor
    ELSE IF account_type = PRIVATE_LOAN THEN PrivateFactor
    ELSE 0

\* apply_interest()
apply_interest(h, self) ==
    IF factor(h[self].account_type) # 0
    THEN [h EXCEPT ![self].balance = @ + interest(h[self], factor(h[self].account_type))]
    ELSE h

(* -------------------------------- Bank --------------------------------- *)

\* create_account(owner, account_type, balance): the heap and the list after
create_account(h, accs, owner, account_type, balance) ==
    LET new_acc == BankAccount(owner, account_type, balance)
        h1 == Append(h, new_acc)
    IN  [heap |-> h1, accounts |-> Append(accs, Len(h1)), ret |-> Ref(Len(h1))]

\* get_account that returns the last match
RECURSIVE get_account_last_from(_, _, _, _)
get_account_last_from(h, accs, owner_name, k) ==
    IF k < 1 THEN Str("Account not found", 0)
    ELSE IF h[accs[k]].owner = owner_name THEN Ref(accs[k])
    ELSE get_account_last_from(h, accs, owner_name, k - 1)

get_account_last(h, accs, owner_name) ==
    get_account_last_from(h, accs, owner_name, Len(accs))

\* get_account(owner_name): the loop over self.accounts from position k
RECURSIVE get_account_from(_, _, _, _)
get_account_from(h, accs, owner_name, k) ==
    IF k > Len(accs) THEN Str("Account not found", 0)
    ELSE IF h[accs[k]].owner = owner_name THEN Ref(accs[k])
    ELSE get_account_from(h, accs, owner_name, k + 1)

get_account(h, accs, owner_name) == get_account_from(h, accs, owner_name, 1)

\* total_assets(): the loop over self.accounts from position k, total so far
RECURSIVE total_assets_from(_, _, _, _)
total_assets_from(h, accs, k, total) ==
    IF k > Len(accs) THEN total
    ELSE total_assets_from(h, accs, k + 1, total + h[accs[k]].balance)

\* total_assets that leaves out the first account
total_assets_skip(h, accs) == total_assets_from(h, accs, 2, 0)

total_assets(h, accs) == total_assets_from(h, accs, 1, 0)

(* ------------------------------ the calls ------------------------------ *)

RECURSIVE TotalTx(_, _)
TotalTx(h, k) == IF k = 0 THEN 0 ELSE Len(h[k].transactions) + TotalTx(h, k - 1)

\* the records fit the bound
Fits(h) == TotalTx(h, Len(h)) <= MaxTx

Init ==
    /\ heap = <<>>
    /\ accounts = <<>>
    /\ now = 0
    /\ ret = None

\* BankAccount(owner, account_type, balance), outside the bank
NewAccountCall(owner, type, balance) ==
    /\ Len(heap) < MaxAccounts
    /\ heap' = Append(heap, BankAccount(owner, type, balance))
    /\ ret' = Ref(Len(heap) + 1)
    /\ UNCHANGED <<accounts, now>>

CreateAccountCall(owner, type, balance) ==
    LET r == create_account(heap, accounts, owner, type, balance) IN
    /\ Len(heap) < MaxAccounts
    /\ heap' = r.heap
    /\ accounts' = r.accounts
    /\ ret' = r.ret
    /\ UNCHANGED now

DepositCall(self, amount) ==
    LET r == deposit(heap, self, amount, now) IN
    /\ Fits(r.heap)
    /\ heap' = r.heap
    /\ ret' = r.ret
    /\ UNCHANGED <<accounts, now>>

WithdrawCall(self, amount) ==
    LET r == withdraw(heap, self, amount, now) IN
    /\ Fits(r.heap)
    /\ heap' = r.heap
    /\ ret' = r.ret
    /\ UNCHANGED <<accounts, now>>

TransferCall(self, target, amount) ==
    LET r == transfer(heap, self, target, amount, now) IN
    /\ Fits(r.heap)
    /\ heap' = r.heap
    /\ ret' = r.ret
    /\ UNCHANGED <<accounts, now>>

ApplyInterestCall(self) ==
    /\ Exact(heap[self], factor(heap[self].account_type))
    /\ heap' = apply_interest(heap, self)
    /\ ret' = None
    /\ UNCHANGED <<accounts, now>>

GetAccountCall(owner_name) ==
    /\ ret' = get_account(heap, accounts, owner_name)
    /\ UNCHANGED <<heap, accounts, now>>

TotalAssetsCall ==
    /\ ret' = Num(total_assets(heap, accounts))
    /\ UNCHANGED <<heap, accounts, now>>

\* the clock advances between calls
Tick ==
    /\ now < MaxTime
    /\ now' = now + 1
    /\ UNCHANGED <<heap, accounts, ret>>

\* the customers open their accounts in turn
NewAccount ==
    LET a == Customers[(Len(heap) % Len(Customers)) + 1]
    IN  NewAccountCall(a[1], a[2], a[3])
OpenAccount ==
    \E owner \in Owners, type \in TypeInputs, balance \in Balances :
        NewAccountCall(owner, type, balance)
CreateAccount == \E a \in AccountArgs : CreateAccountCall(a[1], a[2], a[3])
Deposit == \E self \in Refs, amount \in Amounts : DepositCall(self, amount)
Withdraw == \E self \in Refs, amount \in Amounts : WithdrawCall(self, amount)
Transfer ==
    \E self \in Refs, target \in Targets, amount \in Amounts :
        TransferCall(self, target, amount)
ApplyInterest == \E self \in Refs : ApplyInterestCall(self)
GetAccount == \E owner_name \in OwnerNames : GetAccountCall(owner_name)
TotalAssets == TotalAssetsCall

\* the bank: accounts are opened with create_account
Next ==
    \/ CreateAccount
    \/ Deposit
    \/ Withdraw
    \/ Transfer
    \/ ApplyInterest
    \/ GetAccount
    \/ TotalAssets

Spec == Init /\ [][Next]_vars

\* the BankAccount class alone: accounts are constructed directly
NextAccount ==
    \/ NewAccount
    \/ Deposit
    \/ Withdraw
    \/ Transfer
    \/ ApplyInterest

SpecAccount == Init /\ [][NextAccount]_vars

\* accounts of every type, and the clock
NextInterest ==
    \/ Tick
    \/ OpenAccount
    \/ Deposit
    \/ ApplyInterest

SpecInterest == Init /\ [][NextInterest]_vars

(* ------------------------------ properties ----------------------------- *)

Last(seq) == seq[Len(seq)]

\* new continues old; the records added
Extends(old, new) == Len(new) >= Len(old) /\ SubSeq(new, 1, Len(old)) = old
Appended(old, new) == SubSeq(new, Len(old) + 1, Len(new))

\* how many of the records carry the action label text
CountText(recs, text) ==
    Cardinality({k \in 1..Len(recs) : recs[k].Action.text = text})

\* the sum of the balances of the objects whose indices are in S
RECURSIVE SumBalances(_, _)
SumBalances(h, S) ==
    IF S = {} THEN 0
    ELSE LET i == CHOOSE i \in S : TRUE
         IN  h[i].balance + SumBalances(h, S \ {i})

\* the sum of the balances over the positions S of the bank's list
RECURSIVE SumStored(_, _, _)
SumStored(h, accs, S) ==
    IF S = {} THEN 0
    ELSE LET k == CHOOSE k \in S : TRUE
         IN  h[accs[k]].balance + SumStored(h, accs, S \ {k})

IsMessage(v) == v.kind = "str"

\* what C1 promises of a transfer of amount from self to target
TransferPost(self, target, amount) ==
    LET b == heap[self].balance
        c == heap[target].balance
    IN  /\ heap'[self].balance = b - amount
        /\ heap'[target].balance = c + amount
        /\ Extends(heap[self].transactions, heap'[self].transactions)
        /\ Extends(heap[target].transactions, heap'[target].transactions)
        /\ CountText(Appended(heap[self].transactions,
                              heap'[self].transactions), "transfer to ") = 1
        /\ CountText(Appended(heap[target].transactions,
                              heap'[target].transactions), "transfer from ") = 1

\* C1 as stated: a transfer of 0 < a <= b from A to any account B, B = A
\* included, leaves A with b - a and B with c + a, and adds one transfer-out
\* record to A and one transfer-in record to B.
C1_TransferAnyTarget ==
    [][\A self \in Refs, target \in Refs, amount \in Amounts :
        (/\ 0 < amount
         /\ amount <= heap[self].balance
         /\ TransferCall(self, target, amount)) => TransferPost(self, target, amount)]_vars

\* C1 amended: a transfer of 0 < a <= b from A to another account B leaves A
\* with b - a and B with c + a, and adds one transfer-out record to A and one
\* transfer-in record to B.
C1_TransferOtherTarget ==
    [][\A self \in Refs, target \in Refs, amount \in Amounts :
        (/\ target # self
         /\ 0 < amount
         /\ amount <= heap[self].balance
         /\ TransferCall(self, target, amount)) => TransferPost(self, target, amount)]_vars

\* a transfer between two accounts has just been made
C1_Witness ==
    \E self \in Refs, target \in Refs :
        /\ self # target
        /\ ret = None
        /\ heap[self].transactions # <<>>
        /\ heap[target].transactions # <<>>
        /\ Last(heap[self].transactions).Action.text = "transfer to "
        /\ Last(heap[self].transactions).Balance = heap[self].balance
        /\ Last(heap[target].transactions).Action.text = "transfer from "
        /\ Last(heap[target].transactions).Action.owner = heap[self].owner
        /\ heap[target].balance = Last(heap[self].transactions).Amount

\* C2: whenever a call changes an account's balance it appends exactly one
\* record to that account's transactions, and the record's resulting balance
\* is the account's balance after the call.
C2_OneRecordPerChange ==
    [][\A i \in Refs :
        heap'[i].balance # heap[i].balance =>
            /\ Len(heap'[i].transactions) = Len(heap[i].transactions) + 1
            /\ Extends(heap[i].transactions, heap'[i].transactions)
            /\ Last(heap'[i].transactions).Balance = heap'[i].balance]_vars

\* what C3 promises of apply_interest on an account of the given type
InterestPost(self, type, mult) ==
    heap[self].account_type = type =>
        heap'[self].balance * RateDen =
            heap[self].balance * RateDen + heap[self].balance * RateNum * mult

\* C3: apply_interest leaves a checking balance b unchanged and makes it
\* b + b*r for savings, b + b*r*2 for mortgage_loan, b + b*r*5 for
\* private_loan.
C3_InterestByType ==
    [][\A self \in Refs :
        ApplyInterestCall(self) =>
            /\ InterestPost(self, CHECKING, 0)
            /\ InterestPost(self, SAVINGS, 1)
            /\ InterestPost(self, MORTGAGE_LOAN, 2)
            /\ InterestPost(self, PRIVATE_LOAN, 5)]_vars

\* the step is a call that C4 says fails
FailingCall ==
    \/ \E self \in Refs, amount \in Amounts :
            amount <= 0 /\ DepositCall(self, amount)
    \/ \E self \in Refs, amount \in Amounts :
            /\ (amount <= 0 \/ amount > heap[self].balance)
            /\ WithdrawCall(self, amount)
    \/ \E self \in Refs, target \in Targets, amount \in Amounts :
            /\ (\/ ~isinstance(heap, target)
                \/ amount <= 0
                \/ amount > heap[self].balance)
            /\ TransferCall(self, target, amount)

\* C4: a deposit of a <= 0, a withdrawal of a <= 0 or a > balance, and a
\* transfer to something that is no BankAccount, of a <= 0 or of a > balance
\* each return a message and change no account: balances and transactions
\* stay as they were.  (Every step returns a message and changes nothing, or
\* is none of these calls.)
C4_FailingCallsChangeNothing ==
    [][(IsMessage(ret') /\ heap' = heap) \/ ~FailingCall]_vars

\* a transfer was refused for its amount, on accounts that have a history
C4_Witness ==
    /\ ret = Str("Transfer amount has to be positve number!", 0)
    /\ \E i \in Refs : Len(heap[i].transactions) >= 2

\* C5: a deposit of a > 0 makes the balance b + a and appends one record,
\* a deposit of a with resulting balance b + a; earlier records stay.
C5_Deposit ==
    [][\A self \in Refs, amount \in Amounts :
        (amount > 0 /\ DepositCall(self, amount)) =>
            LET old == heap[self].transactions
                new == heap'[self].transactions
            IN  /\ heap'[self].balance = heap[self].balance + amount
                /\ Len(new) = Len(old) + 1
                /\ SubSeq(new, 1, Len(old)) = old
                /\ Last(new).Action.text = "deposit"
                /\ Last(new).Amount = amount
                /\ Last(new).Balance = heap[self].balance + amount]_vars

\* a deposit was recorded after earlier records
C5_Witness ==
    \E self \in Refs :
        /\ ret = None
        /\ Len(heap[self].transactions) >= 2
        /\ Last(heap[self].transactions).Action.text = "deposit"
        /\ Last(heap[self].transactions).Balance = heap[self].balance
        /\ Last(heap[self].transactions).Balance # Last(heap[self].transactions).Amount

\* C6: a withdrawal of 0 < a <= b makes the balance b - a and appends one
\* record, a withdraw of a with resulting balance b - a.
C6_Withdraw ==
    [][\A self \in Refs, amount \in Amounts :
        (/\ 0 < amount
         /\ amount <= heap[self].balance
         /\ WithdrawCall(self, amount)) =>
            LET old == heap[self].transactions
                new == heap'[self].transactions
            IN  /\ heap'[self].balance = heap[self].balance - amount
                /\ Len(new) = Len(old) + 1
                /\ SubSeq(new, 1, Len(old)) = old
                /\ Last(new).Action.text = "withdraw"
                /\ Last(new).Amount = amount
                /\ Last(new).Balance = heap[self].balance - amount]_vars

\* the whole balance was withdrawn
C6_Witness ==
    \E self \in Refs :
        /\ ret = None
        /\ heap[self].transactions # <<>>
        /\ Last(heap[self].transactions).Action.text = "withdraw"
        /\ Last(heap[self].transactions).Amount > 0
        /\ Last(heap[self].transactions).Balance = 0
        /\ heap[self].balance = 0

\* C7: total_assets returns the sum of the balances of the accounts the bank
\* stores, 0 when it stores none, and changes no account.
C7_TotalAssets ==
    [][TotalAssetsCall =>
        /\ ret' = Num(SumStored(heap, accounts, 1..Len(accounts)))
        /\ (accounts = <<>> => ret' = Num(0))
        /\ heap' = heap
        /\ accounts' = accounts]_vars

\* total_assets was called on a bank of two accounts with balances and history
C7_Witness ==
    /\ ret.kind = "num"
    /\ ret.val # 0
    /\ Len(accounts) >= 2
    /\ \A k \in 1..Len(accounts) : heap[accounts[k]].balance # 0
    /\ \E k \in 1..Len(accounts) : heap[accounts[k]].transactions # <<>>

\* the positions of the bank's list whose account has the owner
Matches(owner_name) ==
    {k \in 1..Len(accounts) : heap[accounts[k]].owner = owner_name}

\* C8: get_account returns the earliest created stored account whose owner
\* is the name, and the not-found message when no stored account has it.
C8_GetAccount ==
    [][\A owner_name \in OwnerNames :
        GetAccountCall(owner_name) =>
            IF Matches(owner_name) # {}
            THEN \E k \in Matches(owner_name) :
                    /\ \A j \in Matches(owner_name) : k <= j
                    /\ ret' = Ref(accounts[k])
            ELSE ret' = Str("Account not found", 0)]_vars

\* get_account returned the first of two accounts of one owner
C8_Witness ==
    /\ Len(accounts) >= 2
    /\ heap[accounts[1]].owner = heap[accounts[2]].owner
    /\ ret = Ref(accounts[1])

\* the step is a transfer call: to another account, to the sender itself,
\* to the bank or to something that is no account, accepted or refused
AnyTransferCall ==
    \E self \in Refs, target \in Targets, amount \in Amounts :
        TransferCall(self, target, amount)

\* C9: a transfer call, accepted or refused, B = A included, leaves the sum
\* of all balances as it was.  (Every step keeps the sum, or is no transfer.)
C9_TransferConserves ==
    [][SumBalances(heap', Refs) = SumBalances(heap, Refs) \/ ~AnyTransferCall]_vars

\* an account has just transferred to itself
C9_Witness ==
    \E self \in Refs :
        LET recs == heap[self].transactions IN
        /\ Len(recs) >= 3
        /\ recs[Len(recs) - 2].Action.text = "deposit"
        /\ recs[Len(recs) - 1].Action.text = "transfer from "
        /\ recs[Len(recs)].Action.text = "transfer to "
        /\ recs[Len(recs)].Balance = heap[self].balance

\* C10: no call makes a balance negative: if no account is overdrawn before a
\* call, none is after it.
C10_NoOverdraft ==
    [][(\A i \in Refs : heap[i].balance >= 0)
        => (\A i \in Refs : heap'[i].balance >= 0)]_vars

\* an emptied account refused a withdrawal
C10_Witness ==
    \E self \in Refs :
        /\ ret = Str("Not enough money remaining! Current balance: {}.", 0)
        /\ heap[self].balance = 0
        /\ heap[self].transactions # <<>>
        /\ Last(heap[self].transactions).Action.text = "withdraw"

====
